---- MODULE Spec2Model ----
(***************************************************************************)
(* The heuristic license classifier of app.py, the API handlers that call  *)
(* it (track_details, check_playlist) and the session's page handlers      *)
(* (home, setup, login, callback, dashboard, logout), as state machines.   *)
(*                                                                         *)
(* Python values are tagged records: None, a str, a list/tuple.  A str is  *)
(* a TLA+ string.  The three non-ASCII characters of the source are        *)
(* written with one ASCII stand-in each (no input field uses them for      *)
(* anything else): U+00A9 as "@", U+2117 as "^", U+2192 as ">".            *)
(* Confidences are integers in hundredths (0.4 is 40); intermediate float  *)
(* values are integers in ten-thousandths.                                 *)
(***************************************************************************)
EXTENDS Integers, Sequences, FiniteSets, TLC

(* ---------------- Python values ---------------- *)
PyNone == [tag |-> "none"]
PyStr(s) == [tag |-> "str", s |-> s]
PyList(items) == [tag |-> "list", items |-> items]
PyNum(n) == [tag |-> "num", n |-> n]
Raise(exc) == [tag |-> "raise", exc |-> exc]

CopyrightSign == "@"
PhonogramSign == "^"
Arrow == ">"

(* ---------------- str methods ---------------- *)
UpperToLower ==
  [c \in {"A","B","C","D","E","F","G","H","I","J","K","L","M",
          "N","O","P","Q","R","S","T","U","V","W","X","Y","Z"} |->
     CASE c = "A" -> "a" [] c = "B" -> "b" [] c = "C" -> "c" [] c = "D" -> "d"
       [] c = "E" -> "e" [] c = "F" -> "f" [] c = "G" -> "g" [] c = "H" -> "h"
       [] c = "I" -> "i" [] c = "J" -> "j" [] c = "K" -> "k" [] c = "L" -> "l"
       [] c = "M" -> "m" [] c = "N" -> "n" [] c = "O" -> "o" [] c = "P" -> "p"
       [] c = "Q" -> "q" [] c = "R" -> "r" [] c = "S" -> "s" [] c = "T" -> "t"
       [] c = "U" -> "u" [] c = "V" -> "v" [] c = "W" -> "w" [] c = "X" -> "x"
       [] c = "Y" -> "y" [] c = "Z" -> "z"]

LowerChar(c) == IF c \in DOMAIN UpperToLower THEN UpperToLower[c] ELSE c

RECURSIVE lower(_)
lower(s) == IF s = "" THEN "" ELSE LowerChar(Head(s)) \o lower(Tail(s))

\* kw in blob
Contains(blob, kw) ==
  \E i \in 0..(Len(blob) - Len(kw)) : SubSeq(blob, i + 1, i + Len(kw)) = kw

\* sep.join(strs) for a list of str
RECURSIVE JoinStr(_, _)
JoinStr(sep, strs) ==
  IF strs = <<>> THEN ""
  ELSE IF Len(strs) = 1 THEN strs[1]
  ELSE strs[1] \o sep \o JoinStr(sep, Tail(strs))

\* sep.join(parts) for a list of values: an exception raised while a part is
\* computed propagates, and join raises TypeError unless every part is a str
join(sep, parts) ==
  IF \E i \in DOMAIN parts : parts[i].tag = "raise"
    THEN parts[CHOOSE i \in DOMAIN parts :
                 /\ parts[i].tag = "raise"
                 /\ \A j \in DOMAIN parts : parts[j].tag = "raise" => i <= j]
  ELSE IF \E i \in DOMAIN parts : parts[i].tag # "str"
    THEN Raise("TypeError")
  ELSE PyStr(JoinStr(sep, [i \in DOMAIN parts |-> parts[i].s]))

\* not value
Falsy(value) ==
  \/ value.tag = "none"
  \/ value.tag = "str" /\ value.s = ""
  \/ value.tag = "list" /\ value.items = <<>>

(* ---------------- _normalize_text ---------------- *)
\* as _normalize_text, the elements of a list joined as they are
normalize_text_flat(value) ==
  IF Falsy(value) THEN PyStr("")
  ELSE IF value.tag = "list" THEN join(" ", value.items)
  ELSE PyStr(lower(value.s))

\* as _normalize_text, the letter case kept
RECURSIVE normalize_text_keeping_case(_)
normalize_text_keeping_case(value) ==
  IF Falsy(value) THEN PyStr("")
  ELSE IF value.tag = "list"
    THEN join(" ", [i \in DOMAIN value.items |-> normalize_text_keeping_case(value.items[i])])
  ELSE PyStr(value.s)

RECURSIVE _normalize_text(_)
_normalize_text(value) ==
  IF Falsy(value) THEN PyStr("")
  ELSE IF value.tag = "list"
    THEN join(" ", [i \in DOMAIN value.items |-> _normalize_text(value.items[i])])
  ELSE PyStr(lower(value.s))

(* ---------------- module-level tables (initial values) ---------------- *)
\* as POSITIVE_LICENSE_KEYWORDS, the label names left out
POSITIVE_LICENSE_KEYWORDS_without_labels ==
  << "royalty free", "royalty-free", "free to use", "free use", "creative commons",
     "cc0", "cc 0", "public domain", "no copyright", "copyright free",
     "free for commercial", "free for monetization", "youtube safe", "license free",
     "copyright-free" >>

POSITIVE_LICENSE_KEYWORDS_init ==
  << "royalty free", "royalty-free", "free to use", "free use", "creative commons",
     "cc0", "cc 0", "public domain", "no copyright", "copyright free",
     "free for commercial", "free for monetization", "youtube safe", "license free",
     "ncs", "nocopyrightsounds", "chillhop records", "chillhop music", "copyright-free" >>

\* as NEGATIVE_LICENSE_KEYWORDS, the two copyright symbols left out
NEGATIVE_LICENSE_KEYWORDS_no_symbols ==
  << "(c) ", "(p) ", "all rights reserved", "under exclusive license",
     "exclusive license", "licensed to", "unauthorized", "broadcast prohibited",
     "for promotional use only", "not for resale", "umg", "universal music", "sony",
     "warner", "wmg", "wmg", "smE", "sony music entertainment", "wmg", "atlantic records",
     "columbia records", "rca records", "def jam", "republic records", "interscope" >>

NEGATIVE_LICENSE_KEYWORDS_init ==
  << CopyrightSign, PhonogramSign, "(c) ", "(p) ", "all rights reserved", "under exclusive license",
     "exclusive license", "licensed to", "unauthorized", "broadcast prohibited",
     "for promotional use only", "not for resale", "umg", "universal music", "sony",
     "warner", "wmg", "wmg", "smE", "sony music entertainment", "wmg", "atlantic records",
     "columbia records", "rca records", "def jam", "republic records", "interscope" >>

POSITIVE_LABELS_init ==
  { "ncs", "nocopyrightsounds", "chillhop records", "chillhop music" }

VARIABLES
  POSITIVE_LICENSE_KEYWORDS,  \* module global (a mutable list)
  NEGATIVE_LICENSE_KEYWORDS,  \* module global (a mutable list)
  POSITIVE_LABELS,            \* module global (a mutable set)
  texts,                      \* the positional arguments of the classifier call
  verdict,                    \* what the latest classifier call returned
  pc,                         \* position of the classifier's caller
  log,                        \* the classifier calls made so far: arguments and result
  session,                    \* the Flask session of the request (a dict)
  catalog,                    \* what the remote catalog API holds
  response,                   \* what the latest handler returned
  config_file,                \* the contents of CONFIG_FILE (PyNone: no such file)
  environ,                    \* os.environ
  http,                       \* the outbound HTTP requests of the latest handler
  history,                    \* the responses to the session's page requests so far
  request_args                \* the request being handled: its path, args or form

globals == << POSITIVE_LICENSE_KEYWORDS, NEGATIVE_LICENSE_KEYWORDS, POSITIVE_LABELS >>
web == << config_file, environ, http, history >>
vars == << POSITIVE_LICENSE_KEYWORDS, NEGATIVE_LICENSE_KEYWORDS, POSITIVE_LABELS,
           texts, verdict, pc, log, session, catalog, response,
           config_file, environ, http, history, request_args >>

(* ---------------- classify_license_from_metadata ---------------- *)
Min(a, b) == IF a <= b THEN a ELSE b
Max(a, b) == IF a >= b THEN a ELSE b

\* round(x, 2) of a value given in ten-thousandths, result in hundredths
\* (round-half-even, as Python's round)
round2(x) ==
  LET q == x \div 100
      r == x % 100
  IN  IF r < 50 THEN q
      ELSE IF r > 50 THEN q + 1
      ELSE IF q % 2 = 0 THEN q ELSE q + 1

\* [kw for kw in keywords if kw in blob]
Matches(keywords, blob) == SelectSeq(keywords, LAMBDA kw : Contains(blob, kw))

\* any(lbl in blob for lbl in POSITIVE_LABELS)
positive_label_hit(blob) == \E lbl \in POSITIVE_LABELS : Contains(blob, lbl)

\* score, doubled (negative_weight is 0.5 under a label hit, else 1.0)
score2(npos, nneg, hit) == 2 * npos - (IF hit THEN 1 ELSE 2) * nneg

\* as is_free, the score alone deciding
is_free_score_only(npos, nneg, hit) == score2(npos, nneg, hit) > 0

\* is_free = score > 0 or positive_label_hit
is_free(npos, nneg, hit) == score2(npos, nneg, hit) > 0 \/ hit

\* as confidence, without the branch for no signal at all
confidence_no_default(npos, nneg, hit, free) ==
  LET base == 5500 + 800 * npos - 500 * nneg
  IN  IF hit THEN (IF free THEN 9000 ELSE 7000)
      ELSE Max(3500, Min(9000, base))

\* as confidence, without the lower clamp
confidence_no_floor(npos, nneg, hit, free) ==
  LET total_signals == npos + nneg
      base == 5500 + 800 * npos - 500 * nneg
  IN  IF hit THEN (IF free THEN 9000 ELSE 7000)
      ELSE IF total_signals = 0 THEN 4000
      ELSE Min(9000, base)

\* as confidence, a label hit scored like any other keyword
confidence_no_label_branch(npos, nneg, hit, free) ==
  LET total_signals == npos + nneg
      base == 5500 + 800 * npos - 500 * nneg
  IN  IF total_signals = 0 THEN 4000
      ELSE Max(3500, Min(9000, base))

\* as confidence, the keyword path clamped to [0.35, 0.70]
confidence_low_cap(npos, nneg, hit, free) ==
  LET total_signals == npos + nneg
      base == 5500 + 800 * npos - 500 * nneg
  IN  IF hit THEN (IF free THEN 9000 ELSE 7000)
      ELSE IF total_signals = 0 THEN 4000
      ELSE Max(3500, Min(7000, base))

\* as confidence, the label branch decided by the score alone
confidence_by_score(npos, nneg, hit, free) ==
  LET total_signals == npos + nneg
      base == 5500 + 800 * npos - 500 * nneg
  IN  IF hit THEN (IF score2(npos, nneg, hit) > 0 THEN 9000 ELSE 7000)
      ELSE IF total_signals = 0 THEN 4000
      ELSE Max(3500, Min(9000, base))

\* the confidence heuristic, in ten-thousandths
confidence(npos, nneg, hit, free) ==
  LET total_signals == npos + nneg
      base == 5500 + 800 * npos - 500 * nneg
  IN  IF hit THEN (IF free THEN 9000 ELSE 7000)
      ELSE IF total_signals = 0 THEN 4000
      ELSE Max(3500, Min(9000, base))

\* as reason, "no clear signals" decided by the positive side alone
reason_ignoring_negatives(positives, negatives, hit) ==
  IF ~(positives # <<>> \/ hit)
    THEN "No clear signals detected."
  ELSE "Signals " \o Arrow \o " positive: "
       \o (IF positives # <<>> THEN JoinStr(", ", positives)
           ELSE IF hit THEN "label whitelisted" ELSE "none")
       \o "; negative: "
       \o (IF negatives # <<>> THEN JoinStr(", ", negatives) ELSE "none")
       \o "."

\* as reason, a clause only for a kind that matched
reason_omitting_empty(positives, negatives, hit) ==
  IF ~(positives # <<>> \/ negatives # <<>> \/ hit)
    THEN "No clear signals detected."
  ELSE "Signals " \o Arrow
       \o (IF positives # <<>> THEN " positive: " \o JoinStr(", ", positives) \o ";"
           ELSE IF hit THEN " positive: label whitelisted;" ELSE "")
       \o (IF negatives # <<>> THEN " negative: " \o JoinStr(", ", negatives) ELSE "")
       \o "."

\* the justification sentence of the verdict
reason(positives, negatives, hit) ==
  IF ~(positives # <<>> \/ negatives # <<>> \/ hit)
    THEN "No clear signals detected."
  ELSE "Signals " \o Arrow \o " positive: "
       \o (IF positives # <<>> THEN JoinStr(", ", positives)
           ELSE IF hit THEN "label whitelisted" ELSE "none")
       \o "; negative: "
       \o (IF negatives # <<>> THEN JoinStr(", ", negatives) ELSE "none")
       \o "."

\* the dict the classifier returns
Verdict(positives, negatives, hit) ==
  LET free == is_free(Len(positives), Len(negatives), hit)
  IN  [ is_free    |-> free,
        confidence |-> round2(confidence(Len(positives), Len(negatives), hit, free)),
        signals    |-> [ positive |-> positives \o (IF hit THEN << "label match" >> ELSE <<>>),
                         negative |-> negatives ],
        reason     |-> reason(positives, negatives, hit) ]

\* classify_license_from_metadata(*texts)
classify_license_from_metadata(args) ==
  LET blob == _normalize_text(PyList(args))
  IN  IF blob.tag = "raise" THEN blob
      ELSE Verdict(Matches(POSITIVE_LICENSE_KEYWORDS, blob.s),
                   Matches(NEGATIVE_LICENSE_KEYWORDS, blob.s),
                   positive_label_hit(blob.s))

(* ---------------- make_spotify_request ---------------- *)
\* 'access_token' in session
HasToken(sess) == "access_token" \in DOMAIN sess

\* make_spotify_request(endpoint): None without a token or on a non-200
\* answer, else the JSON body; remote is what the API answers for the
\* endpoint (PyNone for a non-200 answer)
make_spotify_request(sess, remote) ==
  IF ~HasToken(sess) THEN PyNone ELSE remote

(* ---------------- track_details ---------------- *)
\* d.get(key) for a JSON object d that may be the empty dict
Get(d, key) == IF d = PyNone THEN PyNone ELSE d[key]

\* requests.get(url, ...) for the endpoint, as recorded in http
ApiGet(endpoint) == [ method |-> "GET", url |-> "https://api.spotify.com/v1/" \o endpoint ]

\* the requests /api/track-details sends, in order
track_details_requests(sess, cat, track_id) ==
  IF track_id = PyNone \/ track_id = PyStr("") \/ ~HasToken(sess) THEN <<>>
  ELSE IF cat.track = PyNone THEN << ApiGet("tracks/" \o track_id.s) >>
  ELSE << ApiGet("tracks/" \o track_id.s),
          ApiGet("albums/" \o cat.track.album.id),
          ApiGet("audio-features/" \o track_id.s) >>

\* the JSON body /api/track-details answers with
track_details_body(sess, cat, track_id) ==
  IF track_id = PyNone \/ track_id = PyStr("")
    THEN [ error |-> "No track_id provided" ]
  ELSE
    LET track == make_spotify_request(sess, cat.track)
    IN  IF track = PyNone
          THEN [ error |-> "Could not fetch track" ]
        ELSE
          LET album    == make_spotify_request(sess, cat.album)   \* "or {}"
              artists  == track.artists
              features == make_spotify_request(sess, cat.features) \* "or {}"
              copyrights == IF album = PyNone THEN <<>> ELSE album.copyrights
              args == << track.name,
                         PyStr(JoinStr(", ", [k \in DOMAIN artists |-> artists[k].name])),
                         Get(album, "label"),
                         PyStr(JoinStr(" ", [k \in DOMAIN copyrights |-> copyrights[k].text])) >>
              license_check == classify_license_from_metadata(args)
              af == [ tempo        |-> Get(features, "tempo"),
                      key          |-> Get(features, "key"),
                      mode         |-> Get(features, "mode"),
                      danceability |-> Get(features, "danceability"),
                      energy       |-> Get(features, "energy") ]
          IN  [ args  |-> args,
                track |-> [ id         |-> track.id,
                            name       |-> track.name,
                            artist     |-> IF artists # <<>> THEN artists[1].name ELSE "",
                            explicit   |-> track.explicit,
                            popularity |-> track.popularity ],
                album |-> [ id           |-> Get(album, "id"),
                            name         |-> Get(album, "name"),
                            label        |-> Get(album, "label"),
                            release_date |-> Get(album, "release_date"),
                            copyrights   |-> copyrights ],
                audio_features |-> [ tempo        |-> af.tempo,
                                     key          |-> af.key,
                                     mode         |-> af.mode,
                                     danceability |-> af.danceability,
                                     energy       |-> af.energy,
                                     has_data     |-> \E f \in DOMAIN af : af[f] # PyNone ],
                license |-> license_check ]

(* ---------------- inputs ---------------- *)
MaxArgs == 3
MaxCallArgs == 2
MaxCalls == 3

Fields ==
  { "", "NCS", "royalty", "free", "Royalty Free CC0 public domain", "WMG",
    "UMG Warner", "Sony Music Publishing LLC" }

TextValues ==
  { PyNone } \cup { PyStr(f) : f \in Fields }
  \cup { PyList(<< PyList(<<>>), PyNone, PyStr("SME") >>) }

Inputs == UNION { [1..n -> TextValues] : n \in 0..MaxArgs }

\* the bundles of a caller that classifies several items
CallValues == { PyNone, PyStr("NCS"), PyStr("royalty"), PyStr("free"), PyStr("WMG") }

CallInputs == UNION { [1..n -> CallValues] : n \in 0..MaxCallArgs }

\* bundles a caller passes between two calls with the same bundle
Between ==
  { << PyStr("NCS"), PyStr("UMG Warner") >>,
    << PyStr("Royalty Free CC0 public domain") >>,
    << PyNone, PyStr("") >> }

\* the sequence with the fields at positions i and j exchanged
Swap(seq, i, j) ==
  [k \in DOMAIN seq |-> IF k = i THEN seq[j] ELSE IF k = j THEN seq[i] ELSE seq[k]]

NotCalled == [tag |-> "notcalled"]

\* what the remote catalog API may hold
Tracks ==
  { [ id |-> "t1", name |-> PyStr("Old Song"), artists |-> << [name |-> "Artist"] >>,
      album |-> [id |-> "a1"], explicit |-> FALSE, popularity |-> 10 ],
    [ id |-> "t1", name |-> PyStr("Royalty Free Beat"),
      artists |-> << [name |-> "Someone"], [name |-> "CC0 Crew"] >>,
      album |-> [id |-> "a1"], explicit |-> TRUE, popularity |-> 55 ],
    [ id |-> "t1", name |-> PyNone, artists |-> <<>>,
      album |-> [id |-> "a1"], explicit |-> FALSE, popularity |-> 0 ] }

Labels == { PyNone, PyStr(""), PyStr("NCS"), PyStr("Sony Music Publishing LLC") }

ReleaseDates ==
  { PyNone, PyStr("1900-01-01"), PyStr("1922"), PyStr("1923-05-01"), PyStr("2020-03-15"),
    PyStr("unknown") }

CopyrightLists ==
  { <<>>,
    << [type |-> "P", text |-> PhonogramSign \o " 2020 Some Label"],
       [type |-> "C", text |-> "(C) 2020 WMG"] >>,
    << [type |-> "C", text |-> CopyrightSign \o "2021 Artist"] >> }

Albums ==
  { [ id |-> "a1", name |-> "Album", label |-> l, release_date |-> d, copyrights |-> c ] :
      l \in Labels, d \in ReleaseDates, c \in CopyrightLists }

AudioFeatures ==
  { [ tempo |-> PyNum(120), key |-> PyNum(5), mode |-> PyNum(1),
      danceability |-> PyNum(70), energy |-> PyNum(80) ] }

Catalogs ==
  [ track : Tracks \cup {PyNone}, album : Albums \cup {PyNone},
    features : AudioFeatures \cup {PyNone} ]

NoCatalog == [ track |-> PyNone, album |-> PyNone, features |-> PyNone ]

Sessions == { <<>>, [access_token |-> "token"] }

TrackIds == { PyNone, PyStr(""), PyStr("t1") }

(* ---------------- one call of the classifier ---------------- *)
InitGlobals ==
  /\ POSITIVE_LICENSE_KEYWORDS = POSITIVE_LICENSE_KEYWORDS_init
  /\ NEGATIVE_LICENSE_KEYWORDS = NEGATIVE_LICENSE_KEYWORDS_init
  /\ POSITIVE_LABELS = POSITIVE_LABELS_init

\* no page request handled yet, no credentials stored
InitWeb ==
  /\ config_file = PyNone
  /\ environ = <<>>
  /\ http = <<>>
  /\ history = <<>>
  /\ request_args = <<>>

Init ==
  /\ InitGlobals
  /\ texts \in Inputs
  /\ verdict = NotCalled
  /\ pc = "call"
  /\ log = <<>>
  /\ session = <<>>
  /\ catalog = NoCatalog
  /\ response = NotCalled
  /\ InitWeb

\* as Call, the matched negative keywords added to the module's list
Call_extending ==
  /\ pc = "call"
  /\ verdict' = classify_license_from_metadata(texts)
  /\ log' = Append(log, [texts |-> texts, verdict |-> verdict'])
  /\ pc' = "returned"
  /\ NEGATIVE_LICENSE_KEYWORDS' = NEGATIVE_LICENSE_KEYWORDS \o verdict'.signals.negative
  /\ UNCHANGED << POSITIVE_LICENSE_KEYWORDS, POSITIVE_LABELS, texts, session, catalog, response, web, request_args >>

\* license_check = classify_license_from_metadata(...)
Call ==
  /\ pc = "call"
  /\ verdict' = classify_license_from_metadata(texts)
  /\ log' = Append(log, [texts |-> texts, verdict |-> verdict'])
  /\ pc' = "returned"
  /\ UNCHANGED << globals, texts, session, catalog, response, web, request_args >>

Next == Call

Spec == Init /\ [][Next]_vars

(* ---------------- a caller that classifies several items ---------------- *)
InitCalls ==
  /\ InitGlobals
  /\ texts \in CallInputs
  /\ verdict = NotCalled
  /\ pc = "call"
  /\ log = <<>>
  /\ session = <<>>
  /\ catalog = NoCatalog
  /\ response = NotCalled
  /\ InitWeb

\* the caller goes on to its next item: the same bundle again
NextSame ==
  /\ pc = "returned"
  /\ Len(log) < MaxCalls
  /\ texts' = log[1].texts
  /\ pc' = "call"
  /\ UNCHANGED << globals, verdict, log, session, catalog, response, web, request_args >>

\* the caller goes on to its next item: the first bundle, two fields exchanged
NextPermuted ==
  /\ pc = "returned"
  /\ Len(log) < MaxCalls
  /\ \E i, j \in DOMAIN log[1].texts :
       /\ i < j
       /\ texts' = Swap(log[1].texts, i, j)
  /\ pc' = "call"
  /\ UNCHANGED << globals, verdict, log, session, catalog, response, web, request_args >>

\* the caller goes on to its next item: another bundle
NextOther ==
  /\ pc = "returned"
  /\ Len(log) < MaxCalls
  /\ texts' \in Between
  /\ pc' = "call"
  /\ UNCHANGED << globals, verdict, log, session, catalog, response, web, request_args >>

NextCalls == Call \/ NextSame \/ NextPermuted \/ NextOther

SpecCalls == InitCalls /\ [][NextCalls]_vars

(* ---------------- the /api/track-details handler ---------------- *)
InitHandler ==
  /\ InitGlobals
  /\ texts = <<>>
  /\ verdict = NotCalled
  /\ pc = "request"
  /\ log = <<>>
  /\ session \in Sessions
  /\ catalog \in Catalogs
  /\ response = NotCalled
  /\ InitWeb

track_details(track_id) ==
  /\ pc = "request"
  /\ response' = track_details_body(session, catalog, track_id)
  /\ IF "license" \in DOMAIN response'
       THEN /\ texts' = response'.args
            /\ verdict' = response'.license
            /\ log' = Append(log, [texts |-> texts', verdict |-> verdict'])
       ELSE UNCHANGED << texts, verdict, log >>
  /\ http' = track_details_requests(session, catalog, track_id)
  /\ request_args' = [ path |-> "/api/track-details", track_id |-> track_id ]
  /\ pc' = "responded"
  /\ UNCHANGED << globals, session, catalog, config_file, environ, history >>

NextHandler == \E track_id \in TrackIds : track_details(track_id)

SpecHandler == InitHandler /\ [][NextHandler]_vars

(* ---------------- credentials ---------------- *)
\* load_config(): the parsed CONFIG_FILE, None when the file does not exist
load_config(file) == file

\* save_config(client_id, client_secret): what is written to CONFIG_FILE
save_config(client_id, client_secret) ==
  [ client_id |-> client_id, client_secret |-> client_secret ]

\* os.environ.get(name)
EnvGet(env, name) == IF name \in DOMAIN env THEN PyStr(env[name]) ELSE PyNone

\* as get_credentials, the environment variables tried first
get_credentials_env_first(file, env) ==
  LET client_id     == EnvGet(env, "SPOTIFY_CLIENT_ID")
      client_secret == EnvGet(env, "SPOTIFY_CLIENT_SECRET")
  IN  IF ~Falsy(client_id) /\ ~Falsy(client_secret)
        THEN << client_id, client_secret >>
      ELSE IF file # PyNone
        THEN << PyStr(file.client_id), PyStr(file.client_secret) >>
      ELSE << PyNone, PyNone >>

\* get_credentials(): the pair (client_id, client_secret)
get_credentials(file, env) ==
  LET config == load_config(file)
  IN  IF config # PyNone
        THEN << PyStr(config.client_id), PyStr(config.client_secret) >>
      ELSE
        LET client_id     == EnvGet(env, "SPOTIFY_CLIENT_ID")
            client_secret == EnvGet(env, "SPOTIFY_CLIENT_SECRET")
        IN  IF ~Falsy(client_id) /\ ~Falsy(client_secret)
              THEN << client_id, client_secret >>
            ELSE << PyNone, PyNone >>

\* the whitespace characters of the inputs
Whitespace == { " ", "\t", "\n" }

\* str.strip(): leading and trailing whitespace removed
RECURSIVE Strip(_)
Strip(s) ==
  IF s = "" THEN ""
  ELSE IF SubSeq(s, 1, 1) \in Whitespace THEN Strip(Tail(s))
  ELSE IF SubSeq(s, Len(s), Len(s)) \in Whitespace THEN Strip(SubSeq(s, 1, Len(s) - 1))
  ELSE s

\* request.form.get(name, '')
FormGet(form, name) == IF name \in DOMAIN form THEN form[name] ELSE ""

(* ---------------- the session's pages ---------------- *)
\* render_template_string(page, error=...)
Page(route, page, error) ==
  [ route |-> route, kind |-> "page", body |-> page, error |-> error ]

\* redirect(target)
Redirect(route, target) ==
  [ route |-> route, kind |-> "redirect", body |-> target, error |-> PyNone ]

\* a handler returning a plain string
Text(route, text) ==
  [ route |-> route, kind |-> "text", body |-> text, error |-> PyNone ]

\* an exception leaving the handler: Flask answers 500
ServerError(route, exc) ==
  [ route |-> route, kind |-> "error", body |-> exc, error |-> PyNone ]

\* session[key] = value
DictSet(d, key, value) ==
  [ k \in DOMAIN d \cup {key} |-> IF k = key THEN value ELSE d[k] ]

\* session.pop(key, None)
DictPop(d, key) ==
  IF DOMAIN d \ {key} = {} THEN <<>>
  ELSE [ k \in DOMAIN d \ {key} |-> d[k] ]

token_url == "https://accounts.spotify.com/api/token"
REDIRECT_URI == "http://127.0.0.1:5000/callback"

\* requests.post(token_url, data=token_data), as recorded in http with the
\* status the accounts service answered
TokenPost(code, client_id, client_secret, status_code) ==
  [ method |-> "POST", url |-> token_url,
    data |-> [ grant_type |-> "authorization_code", code |-> code,
               redirect_uri |-> REDIRECT_URI,
               client_id |-> client_id, client_secret |-> client_secret ],
    status_code |-> status_code ]

MaxRequests == 4

\* what the accounts service may answer to the token exchange
TokenAnswers ==
  { [ status_code |-> 200, text |-> "{token A}", json |-> [access_token |-> "tokenA"] ],
    [ status_code |-> 200, text |-> "{token B}", json |-> [access_token |-> "tokenB"] ],
    [ status_code |-> 200, text |-> "{}", json |-> [token_type |-> "Bearer"] ],
    [ status_code |-> 400, text |-> "invalid_grant", json |-> [error |-> "invalid_grant"] ] }

Codes == { PyNone, PyStr("code1") }

Forms ==
  { <<>>,
    [ client_id |-> " id1 ", client_secret |-> " \t\n" ],
    [ client_secret |-> "sec1" ],
    [ client_id |-> " id1 ", client_secret |-> "\tsec 1\n" ] }

ConfigFiles == { PyNone, save_config("id0", "sec0") }

Environs ==
  { <<>>,
    [ SPOTIFY_CLIENT_ID |-> "envid" ],
    [ SPOTIFY_CLIENT_ID |-> "envid", SPOTIFY_CLIENT_SECRET |-> "" ],
    [ SPOTIFY_CLIENT_ID |-> "envid", SPOTIFY_CLIENT_SECRET |-> "envsec" ] }

InitAuth ==
  /\ InitGlobals
  /\ texts = <<>>
  /\ verdict = NotCalled
  /\ pc = "request"
  /\ log = <<>>
  /\ session = <<>>
  /\ catalog = NoCatalog
  /\ response = NotCalled
  /\ config_file \in ConfigFiles
  /\ environ \in Environs
  /\ http = <<>>
  /\ history = <<>>
  /\ request_args = <<>>

\* the handler returns r to the browser
Respond(r) ==
  /\ response' = r
  /\ history' = Append(history, r)

\* what the page handlers neither read nor write
api == << POSITIVE_LICENSE_KEYWORDS, NEGATIVE_LICENSE_KEYWORDS, POSITIVE_LABELS,
          texts, verdict, pc, log, catalog >>

home ==
  /\ Len(history) < MaxRequests
  /\ request_args' = <<>>
  /\ Respond(IF HasToken(session) THEN Redirect("/", "/dashboard")
             ELSE Page("/", "HOME_PAGE", PyNone))
  /\ http' = <<>>
  /\ UNCHANGED << api, session, config_file, environ >>

setup_get ==
  /\ Len(history) < MaxRequests
  /\ request_args' = [ method |-> "GET" ]
  /\ Respond(Page("/setup", "SETUP_PAGE", PyNone))
  /\ http' = <<>>
  /\ UNCHANGED << api, session, config_file, environ >>

setup_post(form) ==
  LET client_id     == Strip(FormGet(form, "client_id"))
      client_secret == Strip(FormGet(form, "client_secret"))
  IN  /\ Len(history) < MaxRequests
      /\ request_args' = [ method |-> "POST", form |-> form ]
      /\ IF client_id = "" \/ client_secret = ""
           THEN /\ Respond(Page("/setup", "SETUP_PAGE",
                     PyStr("Both Client ID and Client Secret are required!")))
                /\ UNCHANGED config_file
           ELSE /\ config_file' = save_config(client_id, client_secret)
                /\ Respond(Redirect("/setup", "/?setup=success"))
      /\ http' = <<>>
      /\ UNCHANGED << api, session, environ >>

login ==
  LET creds == get_credentials(config_file, environ)
  IN  /\ Len(history) < MaxRequests
      /\ request_args' = <<>>
      /\ Respond(IF Falsy(creds[1]) \/ Falsy(creds[2])
                   THEN Redirect("/login", "/setup")
                 ELSE Redirect("/login",
                        "https://accounts.spotify.com/authorize?client_id=" \o creds[1].s))
      /\ http' = <<>>
      /\ UNCHANGED << api, session, config_file, environ >>

callback(code, answer) ==
  LET creds == get_credentials(config_file, environ)
  IN  /\ Len(history) < MaxRequests
      /\ request_args' = [ code |-> code ]
      /\ IF Falsy(creds[1]) \/ Falsy(creds[2])
           THEN /\ Respond(Redirect("/callback", "/setup"))
                /\ http' = <<>>
                /\ UNCHANGED session
           ELSE /\ http' = << TokenPost(code, creds[1].s, creds[2].s, answer.status_code) >>
                /\ IF answer.status_code = 200
                     THEN IF "access_token" \in DOMAIN answer.json
                            THEN /\ session' = DictSet(session, "access_token",
                                                       answer.json.access_token)
                                 /\ Respond(Redirect("/callback", "/dashboard"))
                          ELSE /\ Respond(ServerError("/callback", "KeyError"))
                               /\ UNCHANGED session
                   ELSE /\ Respond(Text("/callback", "Error: " \o answer.text))
                        /\ UNCHANGED session
      /\ UNCHANGED << api, config_file, environ >>

dashboard ==
  /\ Len(history) < MaxRequests
  /\ request_args' = <<>>
  /\ Respond(IF ~HasToken(session) THEN Redirect("/dashboard", "/")
             ELSE Page("/dashboard", "DASHBOARD_PAGE", PyNone))
  /\ http' = <<>>
  /\ UNCHANGED << api, session, config_file, environ >>

\* as logout, the session left as it is
logout_keeping_token ==
  /\ Len(history) < MaxRequests
  /\ request_args' = <<>>
  /\ Respond(Redirect("/logout", "/"))
  /\ http' = <<>>
  /\ UNCHANGED << api, session, config_file, environ >>

logout ==
  /\ Len(history) < MaxRequests
  /\ request_args' = <<>>
  /\ session' = DictPop(session, "access_token")
  /\ Respond(Redirect("/logout", "/"))
  /\ http' = <<>>
  /\ UNCHANGED << api, config_file, environ >>

NextAuth ==
  \/ home
  \/ setup_get
  \/ \E form \in Forms : setup_post(form)
  \/ login
  \/ \E code \in Codes, answer \in TokenAnswers : callback(code, answer)
  \/ dashboard
  \/ logout

SpecAuth == InitAuth /\ [][NextAuth]_vars

(* ---------------- check_playlist ---------------- *)
DigitValue ==
  [c \in {"0","1","2","3","4","5","6","7","8","9"} |->
     CASE c = "0" -> 0 [] c = "1" -> 1 [] c = "2" -> 2 [] c = "3" -> 3 [] c = "4" -> 4
       [] c = "5" -> 5 [] c = "6" -> 6 [] c = "7" -> 7 [] c = "8" -> 8 [] c = "9" -> 9]

IsDigits(s) == s # "" /\ \A k \in 1..Len(s) : SubSeq(s, k, k) \in DOMAIN DigitValue

RECURSIVE ToInt(_)
ToInt(s) ==
  IF s = "" THEN 0
  ELSE 10 * ToInt(SubSeq(s, 1, Len(s) - 1)) + DigitValue[SubSeq(s, Len(s), Len(s))]

DigitChar == << "0", "1", "2", "3", "4", "5", "6", "7", "8", "9" >>

\* str(n) of an int, as the f-string formats it
RECURSIVE str_nat(_)
str_nat(n) ==
  IF n < 10 THEN DigitChar[n + 1]
  ELSE str_nat(n \div 10) \o DigitChar[(n % 10) + 1]

str(n) == IF n < 0 THEN "-" \o str_nat(0 - n) ELSE str_nat(n)

\* int(s) of a text: surrounding whitespace dropped, an optional sign, then
\* decimal digits; anything else raises ValueError
int(s) ==
  LET t    == Strip(s)
      body == IF t # "" /\ Head(t) \in {"-", "+"} THEN Tail(t) ELSE t
  IN  IF ~IsDigits(body) THEN Raise("ValueError")
      ELSE IF Head(t) = "-" THEN PyNum(0 - ToInt(body))
      ELSE PyNum(ToInt(body))

\* start and end as the handler uses them: int(args.get(...) or default),
\* (1, 0) when either conversion raises, start raised to 1
range_of(a) ==
  LET s == IF Falsy(a.start) THEN PyNum(1) ELSE int(a.start.s)
      e == IF Falsy(a.end) THEN PyNum(0) ELSE int(a.end.s)
      parsed == IF s.tag = "raise" \/ e.tag = "raise" THEN << 1, 0 >> ELSE << s.n, e.n >>
  IN  [ start |-> IF parsed[1] < 1 THEN 1 ELSE parsed[1], end |-> parsed[2] ]

limit == 100

\* requests.get(url, params=...) of one page of playlist items
PageGet(playlist_id, offset) ==
  [ method |-> "GET",
    url |-> "https://api.spotify.com/v1/playlists/" \o playlist_id \o "/tracks",
    params |-> [ offset |-> offset, limit |-> limit ] ]

\* what the API answers for the page at the offset: past the last page the
\* API answers a page without items
PageAt(cat, offset) ==
  IF (offset \div limit) + 1 \in DOMAIN cat.pages
    THEN cat.pages[(offset \div limit) + 1]
  ELSE [ items |-> <<>>, next |-> PyNone ]

\* the arguments of the classifier call for a track and its album ("or {}")
license_args(track, album) ==
  LET copyrights == IF album = PyNone THEN <<>> ELSE album.copyrights
  IN  << track.name,
         PyStr(JoinStr(", ", [k \in DOMAIN track.artists |-> track.artists[k].name])),
         Get(album, "label"),
         PyStr(JoinStr(" ", [k \in DOMAIN copyrights |-> copyrights[k].text])) >>

\* the entry appended to tracks
playlist_entry(track, album) ==
  [ id |-> track.id, name |-> track.name, artist |-> track.artists[1].name,
    license |-> classify_license_from_metadata(license_args(track, album)),
    copyrights |-> IF album = PyNone THEN <<>> ELSE album.copyrights ]

\* the loop's outcome when nothing is appended: the tracks appended, the
\* requests sent, the classifier calls made, and idx_global afterwards
NoTracks(idx_global) ==
  [ tracks |-> <<>>, sent |-> <<>>, calls |-> <<>>, idx_global |-> idx_global ]

\* the album request, the classifier call and tracks.append(entry) for a
\* track, ahead of what the rest of the loop does
Appended(track, texts_, entry, rest) ==
  [ tracks |-> << entry >> \o rest.tracks,
    sent   |-> << ApiGet("albums/" \o track.album.id) >> \o rest.sent,
    calls  |-> << [ texts |-> texts_, verdict |-> entry.license ] >> \o rest.calls,
    idx_global |-> rest.idx_global ]

\* as page_items, null tracks counted in idx_global
RECURSIVE page_items_counting_null(_, _, _, _, _)
page_items_counting_null(sess, cat, items, idx_global, rng) ==
  IF items = <<>> THEN NoTracks(idx_global)
  ELSE IF Head(items).track = PyNone
         \/ (rng.end # 0 /\ (idx_global + 1 < rng.start \/ idx_global + 1 > rng.end))
    THEN page_items_counting_null(sess, cat, Tail(items), idx_global + 1, rng)
  ELSE Appended(Head(items).track,
                license_args(Head(items).track, make_spotify_request(sess, cat.album)),
                playlist_entry(Head(items).track, make_spotify_request(sess, cat.album)),
                page_items_counting_null(sess, cat, Tail(items), idx_global + 1, rng))

\* the for loop over the items of one page
RECURSIVE page_items(_, _, _, _, _)
page_items(sess, cat, items, idx_global, rng) ==
  IF items = <<>> THEN NoTracks(idx_global)
  ELSE IF Head(items).track = PyNone
    THEN page_items(sess, cat, Tail(items), idx_global, rng)
  ELSE IF rng.end # 0 /\ (idx_global + 1 < rng.start \/ idx_global + 1 > rng.end)
    THEN page_items(sess, cat, Tail(items), idx_global + 1, rng)
  ELSE Appended(Head(items).track,
                license_args(Head(items).track, make_spotify_request(sess, cat.album)),
                playlist_entry(Head(items).track, make_spotify_request(sess, cat.album)),
                page_items(sess, cat, Tail(items), idx_global + 1, rng))

\* the page request ahead of what the page's items and the later pages did
Paged(request, here, rest) ==
  [ tracks |-> here.tracks \o rest.tracks,
    sent   |-> << request >> \o here.sent \o rest.sent,
    calls  |-> here.calls \o rest.calls,
    idx_global |-> rest.idx_global ]

RECURSIVE playlist_pages(_, _, _, _, _, _)

\* the rest of the while loop once the items of the page at the offset are
\* done: stop without a next link, else go on at offset + limit
after_items(sess, cat, playlist_id, offset, rng, playlist_tracks, here) ==
  IF Falsy(playlist_tracks.next)
    THEN Paged(PageGet(playlist_id, offset), here, NoTracks(here.idx_global))
  ELSE Paged(PageGet(playlist_id, offset), here,
             playlist_pages(sess, cat, playlist_id, offset + limit, here.idx_global, rng))

\* the page as the loop sees it: its items, unless the request failed or
\* the page has none
page_read(playlist_tracks) ==
  IF playlist_tracks = PyNone THEN <<>> ELSE playlist_tracks.items

\* the while loop from the page at the offset on
playlist_pages(sess, cat, playlist_id, offset, idx_global, rng) ==
  IF page_read(make_spotify_request(sess, PageAt(cat, offset))) = <<>>
    THEN Paged(PageGet(playlist_id, offset), NoTracks(idx_global), NoTracks(idx_global))
  ELSE after_items(sess, cat, playlist_id, offset, rng, PageAt(cat, offset),
                   page_items(sess, cat, PageAt(cat, offset).items, idx_global, rng))

\* the title, with the range when one was asked for
playlist_title(playlist, rng, idx_global) ==
  IF rng.start # 1 \/ rng.end # 0
    THEN "Playlist: " \o playlist.name \o " by " \o playlist.owner.display_name
           \o " (range: " \o str(rng.start) \o "-"
           \o str(IF rng.end # 0 THEN rng.end ELSE idx_global) \o ")"
  ELSE "Playlist: " \o playlist.name \o " by " \o playlist.owner.display_name

\* the handler's outcome once the playlist is fetched and the loop is done
playlist_done(playlist_id, playlist, rng, loop) ==
  [ body  |-> [ tracks |-> loop.tracks,
                title  |-> playlist_title(playlist, rng, loop.idx_global) ],
    sent  |-> << ApiGet("playlists/" \o playlist_id) >> \o loop.sent,
    calls |-> loop.calls ]

\* /api/check-playlist: the JSON body, the requests sent and the classifier
\* calls made
check_playlist_run(sess, cat, a) ==
  IF Falsy(a.playlist_id)
    THEN [ body |-> [ error |-> "No playlist ID provided" ], sent |-> <<>>, calls |-> <<>> ]
  ELSE IF ~HasToken(sess)
    THEN [ body |-> [ error |-> "Could not fetch playlist" ], sent |-> <<>>, calls |-> <<>> ]
  ELSE IF make_spotify_request(sess, cat.playlist) = PyNone
    THEN [ body |-> [ error |-> "Could not fetch playlist" ],
           sent |-> << ApiGet("playlists/" \o a.playlist_id.s) >>, calls |-> <<>> ]
  ELSE playlist_done(a.playlist_id.s, cat.playlist, range_of(a),
                     playlist_pages(sess, cat, a.playlist_id.s, 0, 0, range_of(a)))

MaxPages == 2

\* a playlist item holding a track, and one whose track is null
Item(id) ==
  [ track |-> [ id |-> id, name |-> PyStr(id),
                artists |-> << [name |-> "Ann"] >>, album |-> [id |-> "a1"] ] ]

NullItem == [ track |-> PyNone ]

\* the items page p may hold
ItemLists(p) ==
  { <<>>,
    << Item(str(p) \o "a") >>,
    << NullItem, Item(str(p) \o "a") >>,
    << Item(str(p) \o "a"), Item(str(p) \o "b") >> }

\* what the API may answer for page p (PyNone: a non-200 answer)
PageAnswers(p) ==
  {PyNone} \cup
  { [ items |-> i, next |-> n ] : i \in ItemLists(p), n \in { PyNone, PyStr("next") } }

RECURSIVE PageListsOf(_)
PageListsOf(n) ==
  IF n = 0 THEN { <<>> }
  ELSE { Append(ps, a) : ps \in PageListsOf(n - 1), a \in PageAnswers(n) }

PageLists == UNION { PageListsOf(n) : n \in 0..MaxPages }

PlaylistAlbums ==
  { PyNone,
    [ id |-> "a1", name |-> "Album", label |-> PyStr("NCS"), release_date |-> PyStr("2021"),
      copyrights |-> << [type |-> "C", text |-> CopyrightSign] >> ] }

PlaylistCatalogs ==
  { [ playlist |-> PyNone, pages |-> <<>>, album |-> PyNone ] } \cup
  { [ playlist |-> [ name |-> "Mix", owner |-> [display_name |-> "Ann"] ],
      pages |-> ps, album |-> al ] : ps \in PageLists, al \in PlaylistAlbums }

PlaylistRequests ==
  [ path : { "/api/check-playlist" },
    playlist_id : { PyNone, PyStr("p1") },
    start : { PyNone, PyStr("0"), PyStr("2"), PyStr("abc") },
    end : { PyNone, PyStr("0"), PyStr("1"), PyStr("3"), PyStr("x") } ]

InitPlaylist ==
  /\ InitGlobals
  /\ texts = <<>>
  /\ verdict = NotCalled
  /\ pc = "request"
  /\ log = <<>>
  /\ session \in Sessions
  /\ catalog \in PlaylistCatalogs
  /\ response = NotCalled
  /\ config_file = PyNone
  /\ environ = <<>>
  /\ http = <<>>
  /\ history = <<>>
  /\ request_args = <<>>

\* the handler returns: its body answered, its requests and classifier calls
\* recorded
Returns(run) ==
  /\ response' = run.body
  /\ http' = run.sent
  /\ IF run.calls # <<>>
       THEN /\ texts' = run.calls[Len(run.calls)].texts
            /\ verdict' = run.calls[Len(run.calls)].verdict
            /\ log' = log \o run.calls
       ELSE UNCHANGED << texts, verdict, log >>

check_playlist(a) ==
  /\ pc = "request"
  /\ request_args' = a
  /\ Returns(check_playlist_run(session, catalog, a))
  /\ pc' = "responded"
  /\ UNCHANGED << globals, session, catalog, config_file, environ, history >>

NextPlaylist == \E a \in PlaylistRequests : check_playlist(a)

SpecPlaylist == InitPlaylist /\ [][NextPlaylist]_vars

(* ---------------- the other API handlers ---------------- *)
\* as spotify_requests, the request sent whatever the session holds
spotify_requests_without_token_check(sess, request) == << request >>

\* the HTTP calls make_spotify_request makes for a request: none without an
\* access_token in the session, else requests.get(url, headers, params)
spotify_requests(sess, request) ==
  IF ~HasToken(sess) THEN <<>> ELSE << request >>

\* requests.get(url, params=params) for the endpoint
ApiGetWith(endpoint, params) ==
  [ method |-> "GET", url |-> "https://api.spotify.com/v1/" \o endpoint, params |-> params ]

\* an exception leaving an API handler before it sends anything
Failed(route, exc) ==
  [ body |-> ServerError(route, exc), sent |-> <<>>, calls |-> <<>> ]

\* jsonify({'tracks': tracks, 'title': title}) after the handler's first
\* requests and its loop
listing(title, first_sent, loop) ==
  [ body  |-> [ tracks |-> loop.tracks, title |-> title ],
    sent  |-> first_sent \o loop.sent,
    calls |-> loop.calls ]

\* the for loop over tracks: for each the album request, the classifier
\* call and tracks.append(entry)
RECURSIVE track_list(_, _, _)
track_list(sess, cat, tracks) ==
  IF tracks = <<>> THEN NoTracks(0)
  ELSE Appended(Head(tracks),
                license_args(Head(tracks), make_spotify_request(sess, cat.album)),
                playlist_entry(Head(tracks), make_spotify_request(sess, cat.album)),
                track_list(sess, cat, Tail(tracks)))

(* ---------------- check_url ---------------- *)
Alnum == "abcdefghijklmnopqrstuvwxyzABCDEFGHIJKLMNOPQRSTUVWXYZ0123456789"

\* the longest run of [a-zA-Z0-9] the text starts with
RECURSIVE alnum_run(_)
alnum_run(s) ==
  IF s = "" \/ ~Contains(Alnum, SubSeq(s, 1, 1)) THEN ""
  ELSE SubSeq(s, 1, 1) \o alnum_run(SubSeq(s, 2, Len(s)))

\* 'https://open\.spotify\.com/' and (album|track|playlist) of the pattern
url_prefix == "https://open.spotify.com/"
content_types == { "album", "track", "playlist" }

\* the text from position k on starts with the prefix, the type and '/'
TypeAt(url, k, t) ==
  SubSeq(url, k, k + Len(url_prefix \o t \o "/") - 1) = url_prefix \o t \o "/"

\* ([a-zA-Z0-9]+) after the prefix, the type and '/' at position k
IdAt(url, k, t) ==
  alnum_run(SubSeq(url, k + Len(url_prefix \o t \o "/"), Len(url)))

\* re.search(pattern, url): the leftmost match, None when there is none
re_search(url) ==
  LET hits == { h \in (1..Len(url)) \X content_types :
                  /\ h[1] + Len(url_prefix \o h[2] \o "/") - 1 <= Len(url)
                  /\ TypeAt(url, h[1], h[2])
                  /\ IdAt(url, h[1], h[2]) # "" }
      first == CHOOSE h \in hits : \A g \in hits : h[1] <= g[1]
  IN  IF hits = {} THEN PyNone
      ELSE [ content_type |-> first[2], content_id |-> IdAt(url, first[1], first[2]) ]

\* playlist_tracks['items'][:20]
first_items(items) == SubSeq(items, 1, Min(Len(items), 20))

\* the classifier call and tracks.append(entry) for a track of an album,
\* ahead of what the rest of the loop does
AlbumTrackAppended(texts_, entry, rest) ==
  [ tracks |-> << entry >> \o rest.tracks,
    sent   |-> rest.sent,
    calls  |-> << [ texts |-> texts_, verdict |-> entry.license ] >> \o rest.calls,
    idx_global |-> rest.idx_global ]

\* the for loop over the tracks of an album: no request, the album's label
\* and copyrights for every track
RECURSIVE album_items(_, _)
album_items(album, items) ==
  IF items = <<>> THEN NoTracks(0)
  ELSE AlbumTrackAppended(license_args(Head(items), album), playlist_entry(Head(items), album),
                  album_items(album, Tail(items)))

\* content_type == 'album'
check_url_album(sess, cat, content_id) ==
  IF make_spotify_request(sess, cat.album) = PyNone
    THEN listing("", spotify_requests(sess, ApiGet("albums/" \o content_id)), NoTracks(0))
  ELSE listing("Album: " \o cat.album.name \o " by " \o cat.album.artists[1].name,
               spotify_requests(sess, ApiGet("albums/" \o content_id)),
               album_items(cat.album, cat.album.tracks.items))

\* content_type == 'track'
check_url_track(sess, cat, content_id) ==
  IF make_spotify_request(sess, cat.track) = PyNone
    THEN listing("", spotify_requests(sess, ApiGet("tracks/" \o content_id)), NoTracks(0))
  ELSE listing("", spotify_requests(sess, ApiGet("tracks/" \o content_id)),
               track_list(sess, cat, << cat.track >>))

\* the loop over the first items of the playlist, null tracks skipped
check_url_items(sess, cat, playlist_tracks) ==
  IF playlist_tracks = PyNone THEN NoTracks(0)
  ELSE page_items(sess, cat, first_items(playlist_tracks.items), 0, [ start |-> 1, end |-> 0 ])

\* content_type == 'playlist'
check_url_playlist(sess, cat, content_id) ==
  IF make_spotify_request(sess, cat.playlist) = PyNone
    THEN listing("", spotify_requests(sess, ApiGet("playlists/" \o content_id)), NoTracks(0))
  ELSE listing("Playlist: " \o cat.playlist.name,
               spotify_requests(sess, ApiGet("playlists/" \o content_id))
                 \o spotify_requests(sess, ApiGet("playlists/" \o content_id \o "/tracks")),
               check_url_items(sess, cat, make_spotify_request(sess, PageAt(cat, 0))))

check_url_content(sess, cat, match) ==
  CASE match.content_type = "album" -> check_url_album(sess, cat, match.content_id)
    [] match.content_type = "track" -> check_url_track(sess, cat, match.content_id)
    [] match.content_type = "playlist" -> check_url_playlist(sess, cat, match.content_id)

\* /api/check-url: the JSON body, the requests sent and the classifier calls
\* made; re.search raises TypeError when the url argument is absent
check_url_run(sess, cat, url) ==
  IF url = PyNone THEN Failed("/api/check-url", "TypeError")
  ELSE IF re_search(url.s) = PyNone
    THEN [ body |-> [ error |-> "Invalid Spotify URL" ], sent |-> <<>>, calls |-> <<>> ]
  ELSE check_url_content(sess, cat, re_search(url.s))

(* ---------------- saved_tracks, search ---------------- *)
\* int(request.args.get('limit', 20))
limit_of(arg) == IF arg = PyNone THEN PyNum(20) ELSE int(arg.s)

\* the tracks of the saved items (item['track'])
saved_items(results) == [ k \in DOMAIN results.items |-> results.items[k].track ]

\* /api/saved-tracks
saved_tracks_run(sess, cat, limit_arg) ==
  IF limit_of(limit_arg).tag = "raise"
    THEN Failed("/api/saved-tracks", limit_of(limit_arg).exc)
  ELSE IF make_spotify_request(sess, cat.saved) = PyNone
    THEN listing("Your Saved Tracks",
                 spotify_requests(sess, ApiGetWith("me/tracks", [ limit |-> limit_of(limit_arg).n ])),
                 NoTracks(0))
  ELSE listing("Your Saved Tracks",
               spotify_requests(sess, ApiGetWith("me/tracks", [ limit |-> limit_of(limit_arg).n ])),
               track_list(sess, cat, saved_items(cat.saved)))

\* the f-string's {query}
format_query(query) == IF query = PyNone THEN "None" ELSE query.s

\* params of the search request
search_params(query, n) == [ q |-> query, type |-> "track", limit |-> n ]

\* /api/search
search_run(sess, cat, query, limit_arg) ==
  IF limit_of(limit_arg).tag = "raise"
    THEN Failed("/api/search", limit_of(limit_arg).exc)
  ELSE IF make_spotify_request(sess, cat.found) = PyNone
          \/ "tracks" \notin DOMAIN cat.found
    THEN listing("Search results for '" \o format_query(query) \o "'",
                 spotify_requests(sess, ApiGetWith("search",
                                                  search_params(query, limit_of(limit_arg).n))),
                 NoTracks(0))
  ELSE listing("Search results for '" \o format_query(query) \o "'",
               spotify_requests(sess, ApiGetWith("search",
                                                search_params(query, limit_of(limit_arg).n))),
               track_list(sess, cat, cat.found.tracks.items))

(* ---------------- my_playlists ---------------- *)
my_playlists_limit == 50

\* requests.get(url, params=...) of one page of the user's playlists
MyPageGet(offset) ==
  ApiGetWith("me/playlists", [ offset |-> offset, limit |-> my_playlists_limit ])

\* what the API answers for the page at the offset: past the last page the
\* API answers a page without items
MyPageAt(cat, offset) ==
  IF (offset \div my_playlists_limit) + 1 \in DOMAIN cat.my_pages
    THEN cat.my_pages[(offset \div my_playlists_limit) + 1]
  ELSE [ items |-> <<>>, next |-> PyNone ]

\* the entries appended to playlists for the items of one page
playlist_rows(items) ==
  [ k \in DOMAIN items |->
      [ id |-> items[k].id, name |-> items[k].name,
        tracks |-> items[k].tracks.total, owner |-> items[k].owner.display_name ] ]

\* the rows of a page and its request ahead of what the later pages did
Listed(request, rows, rest) ==
  [ playlists |-> rows \o rest.playlists, sent |-> << request >> \o rest.sent ]

\* as my_playlists_pages, going on whether or not the page has a next link
RECURSIVE my_playlists_pages_ignoring_next(_, _, _)
my_playlists_pages_ignoring_next(sess, cat, offset) ==
  IF page_read(make_spotify_request(sess, MyPageAt(cat, offset))) = <<>>
    THEN [ playlists |-> <<>>, sent |-> spotify_requests(sess, MyPageGet(offset)) ]
  ELSE Listed(MyPageGet(offset), playlist_rows(MyPageAt(cat, offset).items),
              my_playlists_pages_ignoring_next(sess, cat, offset + my_playlists_limit))

\* the while loop from the page at the offset on
RECURSIVE my_playlists_pages(_, _, _)
my_playlists_pages(sess, cat, offset) ==
  IF page_read(make_spotify_request(sess, MyPageAt(cat, offset))) = <<>>
    THEN [ playlists |-> <<>>, sent |-> spotify_requests(sess, MyPageGet(offset)) ]
  ELSE IF Falsy(MyPageAt(cat, offset).next)
    THEN Listed(MyPageGet(offset), playlist_rows(MyPageAt(cat, offset).items),
                [ playlists |-> <<>>, sent |-> <<>> ])
  ELSE Listed(MyPageGet(offset), playlist_rows(MyPageAt(cat, offset).items),
              my_playlists_pages(sess, cat, offset + my_playlists_limit))

\* jsonify({'playlists': playlists}) after the loop
my_playlists_done(loop) ==
  [ body |-> [ playlists |-> loop.playlists ], sent |-> loop.sent, calls |-> <<>> ]

\* /api/my-playlists
my_playlists_run(sess, cat) == my_playlists_done(my_playlists_pages(sess, cat, 0))

(* ---------------- the API handlers together ---------------- *)
\* tracks as the catalog API lists them
ApiTracks == { t \in Tracks : t.artists # <<>> }

AlbumTrack(id) ==
  [ id |-> id, name |-> PyStr(id), artists |-> << [name |-> "Ann"] >> ]

ApiAlbums ==
  { [ id |-> "a1", name |-> "Album", label |-> PyStr("NCS"), release_date |-> PyStr("2021"),
      copyrights |-> << [type |-> "C", text |-> CopyrightSign] >>,
      artists |-> << [name |-> "Band"] >>, tracks |-> [ items |-> its ] ] :
      its \in { <<>>, << AlbumTrack("x"), AlbumTrack("y") >> } }

\* what the API may answer for me/tracks
SavedAnswers ==
  { PyNone, [ items |-> <<>> ], [ items |-> << Item("s1"), Item("s2") >> ] }

\* what the API may answer for search
SearchAnswers ==
  { PyNone, [ albums |-> [ items |-> <<>> ] ], [ tracks |-> [ items |-> <<>> ] ],
    [ tracks |-> [ items |-> << Item("f1").track >> ] ] }

\* an item of a page of the user's playlists
MyItem(id) ==
  [ id |-> id, name |-> "List " \o id, tracks |-> [ total |-> 3 ],
    owner |-> [ display_name |-> "Ann" ] ]

MyItemLists(p) ==
  { <<>>,
    << MyItem(str(p) \o "a") >>,
    << MyItem(str(p) \o "a"), MyItem(str(p) \o "b") >> }

\* what the API may answer for page p of me/playlists (PyNone: a non-200 answer)
MyPageAnswers(p) ==
  {PyNone} \cup
  { [ items |-> i, next |-> n ] : i \in MyItemLists(p), n \in { PyNone, PyStr("next") } }

RECURSIVE MyPageListsOf(_)
MyPageListsOf(n) ==
  IF n = 0 THEN { <<>> }
  ELSE { Append(ps, a) : ps \in MyPageListsOf(n - 1), a \in MyPageAnswers(n) }

MyPageLists == UNION { MyPageListsOf(n) : n \in 0..MaxPages }

ThePlaylist == [ name |-> "Mix", owner |-> [display_name |-> "Ann"] ]

\* the catalog: tracks, albums and lists; or a playlist with its pages; or
\* the pages of the user's playlists
ApiCatalogs ==
  [ track : ApiTracks \cup {PyNone}, album : ApiAlbums \cup {PyNone},
    features : AudioFeatures \cup {PyNone}, playlist : {PyNone}, pages : { <<>> },
    saved : SavedAnswers, found : SearchAnswers, my_pages : { <<>> } ]
  \cup
  [ track : {PyNone}, album : ApiAlbums \cup {PyNone}, features : {PyNone},
    playlist : { ThePlaylist }, pages : PageLists,
    saved : {PyNone}, found : {PyNone}, my_pages : { <<>> } ]
  \cup
  [ track : {PyNone}, album : {PyNone}, features : {PyNone},
    playlist : {PyNone}, pages : { <<>> },
    saved : {PyNone}, found : {PyNone}, my_pages : MyPageLists ]

Urls ==
  { PyNone, PyStr(""),
    PyStr("https://open.spotify.com/album/a1"),
    PyStr("https://open.spotify.com/track/t1?si=abc"),
    PyStr("see https://open.spotify.com/playlist/p1 now"),
    PyStr("https://open.spotify.com/artist/x1"),
    PyStr("https://openxspotify.com/track/t1"),
    PyStr("https://open.spotify.com/album/-/https://open.spotify.com/track/t9") }

LimitArgs == { PyNone, PyStr("5"), PyStr(""), PyStr("abc") }

Queries == { PyNone, PyStr("beat") }

InitApi ==
  /\ InitGlobals
  /\ texts = <<>>
  /\ verdict = NotCalled
  /\ pc = "request"
  /\ log = <<>>
  /\ session \in Sessions
  /\ catalog \in ApiCatalogs
  /\ response = NotCalled
  /\ InitWeb

check_url(url) ==
  /\ pc = "request"
  /\ request_args' = [ path |-> "/api/check-url", url |-> url ]
  /\ Returns(check_url_run(session, catalog, url))
  /\ pc' = "responded"
  /\ UNCHANGED << globals, session, catalog, config_file, environ, history >>

saved_tracks(limit_arg) ==
  /\ pc = "request"
  /\ request_args' = [ path |-> "/api/saved-tracks", limit |-> limit_arg ]
  /\ Returns(saved_tracks_run(session, catalog, limit_arg))
  /\ pc' = "responded"
  /\ UNCHANGED << globals, session, catalog, config_file, environ, history >>

search(query, limit_arg) ==
  /\ pc = "request"
  /\ request_args' = [ path |-> "/api/search", query |-> query, limit |-> limit_arg ]
  /\ Returns(search_run(session, catalog, query, limit_arg))
  /\ pc' = "responded"
  /\ UNCHANGED << globals, session, catalog, config_file, environ, history >>

my_playlists ==
  /\ pc = "request"
  /\ request_args' = [ path |-> "/api/my-playlists" ]
  /\ Returns(my_playlists_run(session, catalog))
  /\ pc' = "responded"
  /\ UNCHANGED << globals, session, catalog, config_file, environ, history >>

NextApi ==
  \/ \E url \in Urls : check_url(url)
  \/ \E limit_arg \in LimitArgs : saved_tracks(limit_arg)
  \/ \E query \in Queries, limit_arg \in LimitArgs : search(query, limit_arg)
  \/ my_playlists
  \/ \E a \in PlaylistRequests : check_playlist(a)
  \/ \E track_id \in TrackIds : track_details(track_id)

SpecApi == InitApi /\ [][NextApi]_vars

(* ======================= properties ======================= *)
Returned == pc = "returned"

VerdictFields == { "is_free", "confidence", "signals", "reason" }
IsVerdict(v) == DOMAIN v = VerdictFields

Range(seq) == { seq[k] : k \in DOMAIN seq }

\* the joined, lower-cased text of the call's fields
JoinedText == _normalize_text(PyList(texts))

\* the phrase occurs in the joined text, letter case ignored
Occurs(phrase) == JoinedText.tag = "str" /\ Contains(JoinedText.s, lower(phrase))

PositiveLabelNames == { "ncs", "nocopyrightsounds", "chillhop records", "chillhop music" }
PositiveLabelMatched == \E n \in PositiveLabelNames : Occurs(n)

\* the distinct keywords of a list that occur in the joined text
MatchedKeywords(keywords) == { lower(kw) : kw \in { k \in Range(keywords) : Occurs(k) } }

\* bad-label entries and weights (hundredths) of the definitive-negative rule
BadLabelWeight ==
  (IF Occurs("music publishing") THEN 15 ELSE 0)
  + (IF Occurs("llc") THEN 10 ELSE 0)
  + (IF Occurs("sony") THEN 12 ELSE 0)

BadLabelMarkers ==
  { CopyrightSign, PhonogramSign, "(c)", "(p)", "rights reserved", "copyrighted",
    "music publishing", "records", "llc", "production", "sony" }
BadLabelMatched == \E m \in BadLabelMarkers : Occurs(m)

\* C1: whenever a positive-label name is matched in the input, the verdict
\* has is_free = true, however many negative keywords are matched with it.
C1_PositiveLabelWins ==
  (Returned /\ PositiveLabelMatched) => (IsVerdict(verdict) /\ verdict.is_free)

\* a label hit together with negative matches that outweigh the positive ones
C1_Witness ==
  /\ Returned /\ PositiveLabelMatched /\ IsVerdict(verdict) /\ verdict.is_free
  /\ Len(verdict.signals.negative) >= 2 * (Len(verdict.signals.positive) - 1)
  /\ Len(verdict.signals.negative) > 0

\* C2: when no definitive rule fires (no positive-label hit, no bad-label
\* entry), is_free is true exactly when more positive keywords than negative
\* keywords are matched; equal numbers give is_free = false.
C2_KeywordScore ==
  (Returned /\ ~PositiveLabelMatched /\ ~BadLabelMatched) =>
     /\ IsVerdict(verdict)
     /\ verdict.is_free <=>
          (Cardinality(MatchedKeywords(POSITIVE_LICENSE_KEYWORDS_init))
             > Cardinality(MatchedKeywords(NEGATIVE_LICENSE_KEYWORDS_init)))

\* C3: when no positive keyword, no negative keyword and no label entry is
\* matched, the verdict is is_free = false, confidence 0.4, both signal
\* lists empty.
NothingMatched ==
  /\ MatchedKeywords(POSITIVE_LICENSE_KEYWORDS_init) = {}
  /\ MatchedKeywords(NEGATIVE_LICENSE_KEYWORDS_init) = {}
  /\ ~PositiveLabelMatched

C3_NoSignal ==
  (Returned /\ NothingMatched) =>
     /\ IsVerdict(verdict)
     /\ verdict.is_free = FALSE
     /\ verdict.confidence = 40
     /\ verdict.signals.positive = <<>>
     /\ verdict.signals.negative = <<>>

\* a call whose fields are all empty or None has returned
C3_Witness ==
  /\ Returned /\ NothingMatched
  /\ Len(texts) = 3
  /\ \A k \in DOMAIN texts : texts[k] \in { PyNone, PyStr("") }
  /\ PyNone \in Range(texts)
  /\ IsVerdict(verdict) /\ verdict.confidence = 40

\* C4: the classifier never raises: for every combination of None, empty
\* and non-empty strings and nested lists it returns a record with exactly
\* the fields is_free, confidence, signals and reason, and _normalize_text
\* returns a string for the arguments and for each of them.
C4_NeverRaises ==
  Returned =>
     /\ IsVerdict(verdict)
     /\ verdict.is_free \in BOOLEAN
     /\ verdict.confidence \in Int
     /\ DOMAIN verdict.signals = { "positive", "negative" }
     /\ JoinedText.tag = "str"
     /\ \A k \in DOMAIN texts : _normalize_text(texts[k]).tag = "str"

\* a call with a nested list that holds None and an empty list has returned
C4_Witness ==
  /\ Returned /\ IsVerdict(verdict)
  /\ \E k \in DOMAIN texts :
       /\ texts[k].tag = "list"
       /\ PyNone \in Range(texts[k].items)
       /\ PyList(<<>>) \in Range(texts[k].items)
  /\ PyNone \in Range(texts)

\* C5: two calls with the same input bundle return the same verdict,
\* whatever calls were made in between, and no call modifies the keyword
\* lists or the label set.
C5_Deterministic ==
  /\ \A i, j \in DOMAIN log :
       log[i].texts = log[j].texts => log[i].verdict = log[j].verdict
  /\ POSITIVE_LICENSE_KEYWORDS = POSITIVE_LICENSE_KEYWORDS_init
  /\ NEGATIVE_LICENSE_KEYWORDS = NEGATIVE_LICENSE_KEYWORDS_init
  /\ POSITIVE_LABELS = POSITIVE_LABELS_init

\* the same bundle classified twice with a different bundle in between,
\* negative keywords matched in each of the three calls
C5_Witness ==
  /\ Len(log) = 3
  /\ log[1].texts = log[3].texts
  /\ log[2].texts # log[1].texts
  /\ log[1].verdict = log[3].verdict
  /\ \A k \in 1..3 : log[k].verdict.signals.negative # <<>>

\* C6: the confidence of every verdict lies in [0.35, 0.95] and has at most
\* two decimals (is a whole number of hundredths in 35..95).
C6_ConfidenceRange ==
  Returned => (IsVerdict(verdict) /\ verdict.confidence \in 35..95)

\* a verdict at the lower end, five negative entries matched
C6_Witness ==
  /\ Returned /\ IsVerdict(verdict)
  /\ verdict.confidence = 35
  /\ Len(verdict.signals.negative) >= 5
  /\ verdict.signals.positive = <<>>

\* the leading hyphen-delimited segment of a date string
RECURSIVE LeadingSegment(_)
LeadingSegment(s) ==
  IF s = "" \/ Head(s) = "-" THEN "" ELSE Head(s) \o LeadingSegment(Tail(s))

\* the release date's leading segment is an integer year below 1923
PublicDomainDate(d) ==
  /\ d.tag = "str"
  /\ IsDigits(LeadingSegment(d.s))
  /\ ToInt(LeadingSegment(d.s)) < 1923

Classified == pc = "responded" /\ "license" \in DOMAIN response

\* C7: a release date whose leading segment is a year below 1923 gives
\* is_free = true with confidence 0.95, whatever keywords and labels match.
C7_PublicDomainOverride ==
  (Classified /\ PublicDomainDate(response.album.release_date)) =>
     /\ IsVerdict(response.license)
     /\ response.license.is_free
     /\ response.license.confidence = 95

\* C8: with no positive-label hit, matched bad-label entries of cumulative
\* weight above 0.15 give is_free = false with confidence
\* min(0.90, 0.70 + min(0.20, weight)), even when positive keywords
\* outnumber negative keywords.
C8_DefinitiveNegativeLabel ==
  (Returned /\ ~PositiveLabelMatched /\ BadLabelWeight > 15) =>
     /\ IsVerdict(verdict)
     /\ verdict.is_free = FALSE
     /\ verdict.confidence = Min(90, 70 + Min(20, BadLabelWeight))

\* C9: every verdict carries a status: "unsure" exactly when its confidence
\* is below 0.45, else "free" or "copyrighted" according to is_free.
C9_Status ==
  Returned =>
     /\ "status" \in DOMAIN verdict
     /\ verdict.status = (IF verdict.confidence < 45 THEN "unsure"
                          ELSE IF verdict.is_free THEN "free" ELSE "copyrighted")

\* the two sequences hold the same fields, each as many times
IsPermutation(a, b) ==
  /\ Len(a) = Len(b)
  /\ \A x \in Range(a) \cup Range(b) :
       Cardinality({ k \in DOMAIN a : a[k] = x }) = Cardinality({ k \in DOMAIN b : b[k] = x })

\* C10: a permutation of the sequence of text fields gets the same verdict
\* as the sequence itself.
C10_OrderIndependent ==
  \A i, j \in DOMAIN log :
     IsPermutation(log[i].texts, log[j].texts) => log[i].verdict = log[j].verdict

KeywordSignals(list) == SelectSeq(list, LAMBDA x : x # "label match")

\* the keyword-fallback path with at least one matched signal
KeywordPath ==
  /\ Returned /\ IsVerdict(verdict) /\ ~PositiveLabelMatched
  /\ verdict.signals.positive # <<>> \/ verdict.signals.negative # <<>>

\* keyword score: matched positive keywords minus matched negative keywords
KeywordScore ==
  Cardinality(MatchedKeywords(POSITIVE_LICENSE_KEYWORDS_init))
    - Cardinality(MatchedKeywords(NEGATIVE_LICENSE_KEYWORDS_init))

Clamp(lo, hi, x) == Max(lo, Min(hi, x))

NoDuplicates(list) == \A i, j \in DOMAIN list : list[i] = list[j] => i = j

\* C13: neither signals.positive nor signals.negative holds the same string
\* twice.
C13_NoDuplicateSignals ==
  Returned =>
     /\ IsVerdict(verdict)
     /\ NoDuplicates(verdict.signals.positive)
     /\ NoDuplicates(verdict.signals.negative)

\* C14: every phrase of a keyword list that occurs in the joined text,
\* letter case ignored, is reported in the corresponding signal list.
C14_EveryKeywordMatches ==
  Returned =>
     /\ IsVerdict(verdict)
     /\ \A kw \in Range(POSITIVE_LICENSE_KEYWORDS_init) :
          Occurs(kw) => kw \in Range(verdict.signals.positive)
     /\ \A kw \in Range(NEGATIVE_LICENSE_KEYWORDS_init) :
          Occurs(kw) => kw \in Range(verdict.signals.negative)

\* the symbol occurs in one of the text fields of the call
InSomeField(sym) ==
  \E k \in DOMAIN texts : texts[k].tag = "str" /\ Contains(texts[k].s, sym)

LabelAbsent == response.album.label \in { PyNone, PyStr("") }

\* C15: a copyright symbol in any text field, the label field absent or
\* empty, is reported among the negative signals.
C15_CopyrightSymbol ==
  (Classified /\ LabelAbsent) =>
     \A sym \in { CopyrightSign, PhonogramSign } :
        InSomeField(sym) => (IsVerdict(verdict) /\ sym \in Range(verdict.signals.negative))

\* the notice "(P) 2020 Some Label", written with the symbol, no label
C15_Witness ==
  /\ Classified /\ response.album.label = PyNone
  /\ Contains(texts[4].s, PhonogramSign \o " 2020 Some Label")
  /\ PhonogramSign \in Range(verdict.signals.negative)

NoSignals(v) == v.signals.positive = <<>> /\ v.signals.negative = <<>>

\* C16: the reason is "No clear signals detected." exactly when both signal
\* lists are empty.
C16_NoClearSignals ==
  Returned =>
     /\ IsVerdict(verdict)
     /\ (verdict.reason = "No clear signals detected.") <=> NoSignals(verdict)

\* only negative keywords matched: a reason that names them
C16_Witness ==
  /\ Returned /\ IsVerdict(verdict)
  /\ verdict.signals.positive = <<>>
  /\ verdict.signals.negative # <<>>
  /\ verdict.reason # "No clear signals detected."

\* C17 as stated: with at least one matched signal, the reason has a clause
\* for a kind of signal only if that kind matched.
C17_ReasonClauses_Original ==
  (Returned /\ IsVerdict(verdict) /\ ~NoSignals(verdict)) =>
     /\ Contains(verdict.reason, "positive: ") => verdict.signals.positive # <<>>
     /\ Contains(verdict.reason, "negative: ") => verdict.signals.negative # <<>>

ClauseText(list) == IF list # <<>> THEN JoinStr(", ", list) ELSE "none"

\* C17: with at least one matched signal, the reason is the positive clause
\* followed by the negative clause, each listing the matched keywords of its
\* kind or "none"; positive matches without a negative match yield
\* "negative: none".
C17_ReasonClauses ==
  (Returned /\ IsVerdict(verdict) /\ ~NoSignals(verdict)) =>
     verdict.reason =
        "Signals " \o Arrow \o " positive: "
        \o ClauseText(KeywordSignals(verdict.signals.positive))
        \o "; negative: " \o ClauseText(verdict.signals.negative) \o "."

\* positive matches, no negative match
C17_Witness ==
  /\ Returned /\ IsVerdict(verdict)
  /\ Len(verdict.signals.positive) >= 3
  /\ verdict.signals.negative = <<>>
  /\ Contains(verdict.reason, "; negative: none.")

\* r is s with every upper-case letter replaced by its lower-case letter
IsLowerCased(r, s) ==
  /\ Len(r) = Len(s)
  /\ \A k \in 1..Len(s) :
       LET c == SubSeq(s, k, k)
       IN  SubSeq(r, k, k) = (IF c \in DOMAIN UpperToLower THEN UpperToLower[c] ELSE c)

\* the value and the values nested in it
RECURSIVE SubValues(_)
SubValues(v) ==
  {v} \cup (IF v.tag = "list" THEN UNION { SubValues(v.items[k]) : k \in DOMAIN v.items }
            ELSE {})

NormalizedAsSpecified(v) ==
  LET r == _normalize_text(v)
  IN  /\ r.tag = "str"
      /\ IF v = PyNone \/ v = PyStr("") \/ v = PyList(<<>>) THEN r.s = ""
         ELSE IF v.tag = "str" THEN IsLowerCased(r.s, v.s)
         ELSE r.s = JoinStr(" ", [k \in DOMAIN v.items |-> _normalize_text(v.items[k]).s])

\* C18: the normalizer returns a string lower-cased, a sequence as its
\* normalized elements joined by single spaces in order, and "" for None,
\* "" and an empty sequence.
C18_Normalizer ==
  Returned => \A v \in SubValues(PyList(texts)) : NormalizedAsSpecified(v)

\* a nested sequence with None, an empty sequence and upper-case strings
C18_Witness ==
  /\ Returned
  /\ texts = << PyList(<< PyList(<<>>), PyNone, PyStr("SME") >>), PyStr("NCS") >>
  /\ JoinedText = PyStr("  sme ncs")

\* the dashboard page was rendered
DashboardRendered(r) == r = Page("/dashboard", "DASHBOARD_PAGE", PyNone)

\* the request just handled was a /callback whose token exchange answered 200
SuccessfulExchange(r, sent) ==
  /\ r.route = "/callback"
  /\ Len(sent) = 1
  /\ sent[1].url = token_url
  /\ sent[1].status_code = 200

\* C19: on one session, every request to /, /login, /callback, /dashboard or
\* /logout keeps the token discipline: the dashboard page is rendered only
\* when the session holds an access_token; a token is put into the session
\* (or replaced) only by a /callback whose token exchange answered HTTP 200;
\* a /logout leaves no token in the session; and while the session holds no
\* token a /dashboard request is answered by a redirect to /.
C19_SessionToken ==
  [][ /\ DashboardRendered(response') => HasToken(session)
      /\ (HasToken(session') /\ session' # session)
           => SuccessfulExchange(response', http')
      /\ response'.route = "/logout" => ~HasToken(session')
      /\ (response'.route = "/dashboard" /\ ~HasToken(session))
           => response' = Redirect("/dashboard", "/")
    ]_vars

\* a successful /callback, the dashboard rendered, a /logout, and then a
\* /dashboard request redirected to /
C19_Witness ==
  /\ ~HasToken(session)
  /\ \E i, j, k, l \in DOMAIN history :
       /\ i < j /\ j < k /\ k < l
       /\ history[i] = Redirect("/callback", "/dashboard")
       /\ DashboardRendered(history[j])
       /\ history[k] = Redirect("/logout", "/")
       /\ history[l] = Redirect("/dashboard", "/")

\* /api/check-playlist answered with a track list
Selected ==
  /\ pc = "responded"
  /\ request_args.path = "/api/check-playlist"
  /\ "tracks" \in DOMAIN response

\* the items of the pages the handler reads, from page k on: it stops after
\* a page that fails, is empty or has no next link
RECURSIVE ItemsFrom(_)
ItemsFrom(k) ==
  IF k \notin DOMAIN catalog.pages \/ catalog.pages[k] = PyNone THEN <<>>
  ELSE IF catalog.pages[k].items = <<>> THEN <<>>
  ELSE IF Falsy(catalog.pages[k].next) THEN catalog.pages[k].items
  ELSE catalog.pages[k].items \o ItemsFrom(k + 1)

HoldsTrack(item) == item.track # PyNone

\* the ids of the non-null tracks, in playlist order: position = 1-based index
NonNullIds ==
  LET items == SelectSeq(ItemsFrom(1), HoldsTrack)
  IN  [ k \in DOMAIN items |-> items[k].track.id ]

ReturnedIds == [ k \in DOMAIN response.tracks |-> response.tracks[k].id ]

NonInteger(v) == ~Falsy(v) /\ int(v.s).tag = "raise"

BadRange == NonInteger(request_args.start) \/ NonInteger(request_args.end)

\* start and end as the claim reads them
GivenStart ==
  IF BadRange \/ Falsy(request_args.start) THEN 1
  ELSE Max(1, int(request_args.start.s).n)

GivenEnd ==
  IF BadRange \/ Falsy(request_args.end) THEN 0
  ELSE int(request_args.end.s).n

\* elements lo..hi of a sequence (none when lo > hi)
Slice(seq, lo, hi) ==
  IF lo > hi THEN <<>> ELSE [ k \in 1..(hi - lo + 1) |-> seq[lo + k - 1] ]

BaseTitle == "Playlist: " \o catalog.playlist.name \o " by "
               \o catalog.playlist.owner.display_name

RangeTitle ==
  BaseTitle \o " (range: " \o str(GivenStart) \o "-" \o str(Len(NonNullIds)) \o ")"

\* the tracks returned are those the range selects
RangeSelects ==
  /\ GivenEnd >= 1 =>
       ReturnedIds = Slice(NonNullIds, GivenStart, Min(GivenEnd, Len(NonNullIds)))
  /\ GivenEnd = 0 => ReturnedIds = NonNullIds

\* C20 as stated: the range selects the returned tracks, and whenever end is
\* absent or 0 the title reports the range start..total.
C20_RangeSelection_Original ==
  Selected =>
    /\ RangeSelects
    /\ GivenEnd = 0 => response.title = RangeTitle

\* C20: counting only non-null tracks with a 1-based index over the pages
\* read, with end >= 1 the returned tracks are exactly those with
\* start <= index <= end in playlist order (start below 1 counts as 1, a
\* non-integer start or end gives start = 1, end = 0); with end absent or 0
\* every track is returned whatever start is, and the title reports the range
\* start..total when start is not 1 and carries no range when start is 1.
C20_RangeSelection ==
  Selected =>
    /\ RangeSelects
    /\ GivenEnd = 0 =>
         response.title = IF GivenStart # 1 THEN RangeTitle ELSE BaseTitle

\* start = 2 and end = 3 select the second and third of at least three
\* tracks spread over two pages, a null item being skipped in the count
C20_Witness ==
  /\ Selected
  /\ GivenStart = 2 /\ GivenEnd = 3
  /\ Len(NonNullIds) >= 3
  /\ Len(ItemsFrom(1)) > Len(NonNullIds)
  /\ ReturnedIds = << NonNullIds[2], NonNullIds[3] >>

\* the verdict reports a positive-label hit
LabelMatchReported ==
  Returned /\ IsVerdict(verdict) /\ "label match" \in Range(verdict.signals.positive)

\* score > 0 for the reported keyword matches, negatives weighted w2 / 2
ScorePositive(w2) ==
  2 * Len(KeywordSignals(verdict.signals.positive))
    - w2 * Len(verdict.signals.negative) > 0

\* C24: whenever the classifier has a positive-label hit, is_free is true,
\* so the confidence is exactly 0.9 and never the 0.7 of the label branch;
\* and the halving of the negative weight changes no is_free: every verdict's
\* is_free is what the unhalved weight (1.0) gives, score > 0 or label hit.
C24_LabelHitFree ==
  /\ LabelMatchReported => (verdict.is_free /\ verdict.confidence = 90)
  /\ (Returned /\ IsVerdict(verdict)) =>
       verdict.is_free = (ScorePositive(2) \/ LabelMatchReported)

\* a label hit whose score is not positive even with the halved weights:
\* the case in which the branch would have given 0.7
C24_Witness ==
  /\ LabelMatchReported
  /\ ~ScorePositive(1)
  /\ verdict.is_free
  /\ verdict.confidence = 90

\* C25: every entry of POSITIVE_LABELS is an entry of
\* POSITIVE_LICENSE_KEYWORDS, so a label hit comes with at least one positive
\* keyword match: "label match" is the last entry of signals.positive and is
\* preceded by a keyword, and the reason never says "label whitelisted".
C25_LabelsAreKeywords ==
  /\ POSITIVE_LABELS \subseteq Range(POSITIVE_LICENSE_KEYWORDS)
  /\ (Returned /\ IsVerdict(verdict)) =>
       /\ ~Contains(verdict.reason, "label whitelisted")
       /\ LabelMatchReported =>
            /\ Len(verdict.signals.positive) >= 2
            /\ verdict.signals.positive[1] \in Range(POSITIVE_LICENSE_KEYWORDS)
            /\ KeywordSignals(verdict.signals.positive) # <<>>

\* a label hit whose only positive keyword is the label's own entry
C25_Witness ==
  /\ LabelMatchReported
  /\ verdict.signals.positive = << "ncs", "label match" >>
  /\ Contains(verdict.reason, "positive: ncs;")

\* the request just handled was a POST to /setup
IsSetupPost(r, a) == r.route = "/setup" /\ a.method = "POST"

\* the text is empty once its whitespace is stripped
Blank(s) == \A k \in 1..Len(s) : SubSeq(s, k, k) \in Whitespace

\* both form fields are non-empty after stripping
BothGiven(form) ==
  /\ ~Blank(FormGet(form, "client_id"))
  /\ ~Blank(FormGet(form, "client_secret"))

BothEnv(env) ==
  /\ "SPOTIFY_CLIENT_ID" \in DOMAIN env
  /\ "SPOTIFY_CLIENT_SECRET" \in DOMAIN env

SetupError ==
  Page("/setup", "SETUP_PAGE", PyStr("Both Client ID and Client Secret are required!"))

\* C23: a POST to /setup writes the credentials file only when client_id
\* and client_secret are both non-empty after stripping, and then
\* get_credentials returns the saved (stripped) pair whatever the environment
\* holds; otherwise the file is left as it is and the setup page is returned
\* with the error.  No other request writes the file.  With no file and not
\* both environment variables, get_credentials returns (None, None).  A
\* token exchange sends the stored pair when there is one.
C23_Setup ==
  [][ /\ IsSetupPost(response', request_args') =>
           IF BothGiven(request_args'.form)
             THEN /\ config_file' =
                       [ client_id |-> Strip(request_args'.form.client_id),
                         client_secret |-> Strip(request_args'.form.client_secret) ]
                  /\ response' = Redirect("/setup", "/?setup=success")
                  /\ get_credentials(config_file', environ') =
                       << PyStr(config_file'.client_id), PyStr(config_file'.client_secret) >>
           ELSE /\ config_file' = config_file
                /\ response' = SetupError
      /\ config_file' # config_file => IsSetupPost(response', request_args')
      /\ (config_file' = PyNone /\ ~BothEnv(environ'))
           => get_credentials(config_file', environ') = << PyNone, PyNone >>
      /\ (response'.route = "/callback" /\ http' # <<>> /\ config_file # PyNone)
           => /\ http'[1].data.client_id = config_file.client_id
              /\ http'[1].data.client_secret = config_file.client_secret
    ]_vars

\* credentials saved through /setup are used by a later token exchange
\* although both environment variables are set
C23_Witness ==
  /\ BothEnv(environ)
  /\ environ.SPOTIFY_CLIENT_SECRET # ""
  /\ config_file = [ client_id |-> "id1", client_secret |-> "sec 1" ]
  /\ response.route = "/callback"
  /\ http # <<>>
  /\ http[1].data.client_id = "id1"
  /\ \E i \in DOMAIN history : history[i] = Redirect("/setup", "/?setup=success")

\* the request goes to the remote catalog API
IsCatalogRequest(r) == SubSeq(r.url, 1, 27) = "https://api.spotify.com/v1/"

\* the handler of the path has answered
Answered(path) == pc = "responded" /\ request_args.path = path

\* a JSON body with an empty tracks list and no error field
EmptyListing ==
  /\ "tracks" \in DOMAIN response
  /\ response.tracks = <<>>
  /\ "error" \notin DOMAIN response

\* the url argument is present and the pattern matches in it
WellFormed(url) == url # PyNone /\ re_search(url.s) # PyNone

\* the limit argument is absent or the text of an integer
IntegerLimit(arg) == arg = PyNone \/ int(arg.s).tag = "num"

\* without a token nothing goes to the catalog API, whatever would answer
NoTokenNoCall ==
  /\ (\E k \in DOMAIN http : IsCatalogRequest(http[k])) => HasToken(session)
  /\ ~HasToken(session) =>
       /\ spotify_requests(session, ApiGet("me/tracks")) = <<>>
       /\ \A remote \in { catalog.track, catalog.album, catalog.playlist,
                          catalog.saved, catalog.found } :
            make_spotify_request(session, remote) = PyNone

\* C21 as stated: no catalog request without an access_token, and without
\* one /api/check-url (well-formed URL), /api/saved-tracks and /api/search
\* always answer an empty tracks list without an error field and
\* /api/check-playlist always answers 'Could not fetch playlist'.
C21_NoTokenNoRequest_Original ==
  /\ NoTokenNoCall
  /\ (pc = "responded" /\ ~HasToken(session)) =>
       /\ (request_args.path = "/api/check-url" /\ WellFormed(request_args.url))
            => EmptyListing
       /\ request_args.path \in { "/api/saved-tracks", "/api/search" } => EmptyListing
       /\ request_args.path = "/api/check-playlist"
            => response = [ error |-> "Could not fetch playlist" ]

\* C21: no request is sent to the remote catalog API unless the session
\* holds an access_token; without one /api/check-url with a well-formed URL
\* answers an empty tracks list and no error field, /api/saved-tracks and
\* /api/search do so when their limit is absent or an integer and fail with
\* ValueError otherwise, and /api/check-playlist answers 'Could not fetch
\* playlist' when a playlist_id is given and 'No playlist ID provided'
\* otherwise.
C21_NoTokenNoRequest ==
  /\ NoTokenNoCall
  /\ (pc = "responded" /\ ~HasToken(session)) =>
       /\ (request_args.path = "/api/check-url" /\ WellFormed(request_args.url))
            => EmptyListing
       /\ request_args.path \in { "/api/saved-tracks", "/api/search" } =>
            IF IntegerLimit(request_args.limit) THEN EmptyListing
            ELSE response = ServerError(request_args.path, "ValueError")
       /\ request_args.path = "/api/check-playlist" =>
            response = [ error |-> IF Falsy(request_args.playlist_id)
                                     THEN "No playlist ID provided"
                                   ELSE "Could not fetch playlist" ]

\* without a token the album URL of an album the catalog holds is answered
\* with no tracks and nothing is sent
C21_Witness ==
  /\ Answered("/api/check-url")
  /\ ~HasToken(session)
  /\ request_args.url = PyStr("https://open.spotify.com/album/a1")
  /\ catalog.album # PyNone
  /\ catalog.album.tracks.items # <<>>
  /\ response = [ tracks |-> <<>>, title |-> "" ]
  /\ http = <<>>

\* the answer for page k of a list of pages: past the last, a page without
\* items
AnswerAt(pages, k) ==
  IF k \in DOMAIN pages THEN pages[k] ELSE [ items |-> <<>>, next |-> PyNone ]

\* the page request failed, returned no items, or has no next link
Stops(page) == page = PyNone \/ page.items = <<>> \/ Falsy(page.next)

\* the number of the first page at which a loop over the pages has to stop
LastRequested(pages) ==
  CHOOSE n \in 1..(Len(pages) + 1) :
    /\ Stops(AnswerAt(pages, n))
    /\ \A k \in 1..(n - 1) : ~Stops(AnswerAt(pages, k))

\* the items of pages 1..n, in order
RECURSIVE ItemsUpTo(_, _)
ItemsUpTo(pages, n) ==
  IF n = 0 THEN <<>>
  ELSE ItemsUpTo(pages, n - 1)
         \o (IF AnswerAt(pages, n) = PyNone THEN <<>> ELSE AnswerAt(pages, n).items)

IsPageRequest(r) == "params" \in DOMAIN r /\ "offset" \in DOMAIN r.params

\* the offset and limit of the page requests sent, in the order sent
PagesAsked ==
  LET asked == SelectSeq(http, IsPageRequest)
  IN  [ k \in DOMAIN asked |-> << asked[k].params.offset, asked[k].params.limit >> ]

\* n requests with offsets 0, L, 2L, ... and limit L
Successive(n, L) == [ k \in 1..n |-> << (k - 1) * L, L >> ]

\* the ids of the non-null tracks of the items, in order
TrackIdsOf(items) ==
  LET held == SelectSeq(items, HoldsTrack)
  IN  [ k \in DOMAIN held |-> held[k].track.id ]

\* the rows my_playlists has to return for the items, in order
RowsOf(items) ==
  [ k \in DOMAIN items |->
      [ id |-> items[k].id, name |-> items[k].name, tracks |-> items[k].tracks.total,
        owner |-> items[k].owner.display_name ] ]

\* the album requests sent, one per track processed
AlbumsAsked == SelectSeq(http, LAMBDA r : SubSeq(r.url, 1, 34) = "https://api.spotify.com/v1/albums/")

\* C22: the pagination loops of my_playlists and check_playlist request the
\* pages at offsets 0, L, 2L, ... (L = 50 and 100) up to and including the
\* first page that fails, has no items or has no next link, and no further;
\* every item of the pages fetched is processed once and in order, and the
\* answer carries what was gathered and no error field, also when a page
\* after the first fails.
C22_Pagination ==
  /\ (Answered("/api/my-playlists") /\ HasToken(session)) =>
       /\ PagesAsked = Successive(LastRequested(catalog.my_pages), 50)
       /\ response =
            [ playlists |->
                RowsOf(ItemsUpTo(catalog.my_pages, LastRequested(catalog.my_pages))) ]
  /\ (Answered("/api/check-playlist") /\ "tracks" \in DOMAIN response) =>
       /\ PagesAsked = Successive(LastRequested(catalog.pages), 100)
       /\ ReturnedIds =
            IF GivenEnd = 0
              THEN TrackIdsOf(ItemsUpTo(catalog.pages, LastRequested(catalog.pages)))
            ELSE Slice(TrackIdsOf(ItemsUpTo(catalog.pages, LastRequested(catalog.pages))),
                       GivenStart,
                       Min(GivenEnd,
                           Len(TrackIdsOf(ItemsUpTo(catalog.pages,
                                                    LastRequested(catalog.pages))))))
       /\ Len(AlbumsAsked) = Len(response.tracks)
       /\ "error" \notin DOMAIN response

\* the second page of the user's playlists fails: the two playlists of the
\* first page are returned, after requests at offsets 0 and 50
C22_Witness ==
  /\ Answered("/api/my-playlists")
  /\ HasToken(session)
  /\ Len(catalog.my_pages) = 2
  /\ catalog.my_pages[2] = PyNone
  /\ PagesAsked = << << 0, 50 >>, << 50, 50 >> >>
  /\ response = [ playlists |-> RowsOf(catalog.my_pages[1].items) ]
  /\ Len(response.playlists) = 2

====
